---- MODULE Spec2Model ----
(***************************************************************************)
(* Sales-data ETL: the Cleaner (staging/clean_data.py), the Schema Manager *)
(* (datawarehouse/createtables.py) and the Dimensional Loader              *)
(* (datawarehouse/load.py) over a PostgreSQL warehouse with the tables     *)
(* dim_customer, dim_product and fact_sales.                               *)
(*                                                                         *)
(* Representation.  A string is a sequence of one-character strings, so    *)
(* that strip / lower / replace are computed character by character.  The  *)
(* missing value (pandas NaN / NaT / None, SQL NULL) is the empty sequence:*)
(* read_csv turns an empty cell into NaN and to_csv writes NaN as an empty *)
(* cell.  A nullable number is <<>> or <<n>>.  Prices and products of      *)
(* quantity and price are integers in thousandths; NUMERIC(10,2) values    *)
(* are integers in hundredths.                                             *)
(***************************************************************************)
EXTENDS Integers, Sequences, FiniteSets, TLC

VARIABLES
    input_dir,     \* the ./data directory: the raw export files in listing order
    cleaned,       \* the ./cleaned directory: the files in listing order
    db,            \* the warehouse: tables, SERIAL sequences, staging tables
    pc,            \* per loader process: its position in main()
    combined_df,   \* per loader process: combined_df after type coercion
    db_customers,  \* per loader process: the dim_customer keys it read
    db_products,   \* per loader process: the dim_product keys it read
    pending,       \* the Cleaner has written output no loader run has read yet
    runs           \* number of loader runs started so far (bounded)

vars == <<input_dir, cleaned, db, pc, combined_df, db_customers, db_products, pending, runs>>

(***************************************************************************)
(* Bounds of the model.                                                    *)
(***************************************************************************)
MaxFiles == 2
MaxRowsPerFile == 1
MaxRuns == 2
MaxFilesConc == 1

(***************************************************************************)
(* Strings.                                                                *)
(***************************************************************************)
NaN == <<>>

Box(n) == <<n>>

Unbox(b) == b[1]

UpperToLower ==
    [c \in {"A", "D", "E", "I", "O", "P", "Q"} |->
        CASE c = "A" -> "a" [] c = "D" -> "d" [] c = "E" -> "e" [] c = "I" -> "i"
          [] c = "O" -> "o" [] c = "P" -> "p" [] c = "Q" -> "q"]

\* str.lower()
Lower(s) ==
    [i \in 1..Len(s) |-> IF s[i] \in DOMAIN UpperToLower THEN UpperToLower[s[i]] ELSE s[i]]

\* str.replace(a, b) for one-character a and b
Replace(s, a, b) == [i \in 1..Len(s) |-> IF s[i] = a THEN b ELSE s[i]]

RECURSIVE LStrip(_)
LStrip(s) == IF s # <<>> /\ Head(s) = " " THEN LStrip(Tail(s)) ELSE s

RECURSIVE RStrip(_)
RStrip(s) ==
    IF s # <<>> /\ s[Len(s)] = " " THEN RStrip(SubSeq(s, 1, Len(s) - 1)) ELSE s

\* str.strip()
Strip(s) == RStrip(LStrip(s))

\* `sub in s` for strings
Contains(s, sub) ==
    \E i \in 1..(Len(s) - Len(sub) + 1) : SubSeq(s, i, i + Len(sub) - 1) = sub

\* str(item) of a cell of an object column: NaN prints as "nan"
Str(item) == IF item = NaN THEN <<"n", "a", "n">> ELSE item

(***************************************************************************)
(* The raw export.  The header of the source files and the cell values the *)
(* model draws rows from.                                                  *)
(***************************************************************************)
RawHeader ==
    << <<"O", "r", "d", "e", "r", " ", "I", "D">>,
       <<"P", "r", "o", "d", "u", "c", "t">>,
       <<"Q", "u", "a", "n", "t", "i", "t", "y", " ", "O", "r", "d", "e", "r", "e", "d">>,
       <<"P", "r", "i", "c", "e", " ", "E", "a", "c", "h">>,
       <<"O", "r", "d", "e", "r", " ", "D", "a", "t", "e">>,
       <<"P", "u", "r", "c", "h", "a", "s", "e", " ", "A", "d", "d", "r", "e", "s", "s">> >>

\* the column names load.py reads by name
order_id == <<"o", "r", "d", "e", "r", "_", "i", "d">>
product == <<"p", "r", "o", "d", "u", "c", "t">>
quantity_ordered ==
    <<"q", "u", "a", "n", "t", "i", "t", "y", "_", "o", "r", "d", "e", "r", "e", "d">>
price_each == <<"p", "r", "i", "c", "e", "_", "e", "a", "c", "h">>
order_date == <<"o", "r", "d", "e", "r", "_", "d", "a", "t", "e">>
purchase_address ==
    <<"p", "u", "r", "c", "h", "a", "s", "e", "_", "a", "d", "d", "r", "e", "s", "s">>

NA == <<"N", "/", "A">>

\* data rows of a raw export: order id, product, quantity, price, date, address
RawRows ==
    { << <<"A", "1">>, <<"p">>, <<"2">>, <<"1">>, <<"7">>, <<"a">> >>,
      << <<"A", "1">>, <<"q">>, <<"3">>, <<"2">>, <<"8">>, <<"b">> >>,
      << <<"A", "2">>, <<"q">>, NA, <<"1">>, <<"7">>, <<"a">> >>,
      << <<"A", "2">>, <<"q">>, <<"1">>, <<"1">>, <<"7">>, <<>> >>,
      << <<"A", "3">>, <<"q">>, <<"-", "1">>, <<"1", ".", "0", "0", "4">>, <<"7">>, <<"b">> >>,
      << <<"A", "3">>, <<"p">>, <<"1", ".", "5">>, <<"1">>, <<"7">>, <<"a">> >>,
      << <<>>, <<"p">>, <<"1">>, <<"1">>, <<"7">>, <<"b">> >>,
      << <<>>, <<>>, <<>>, <<>>, <<>>, <<>> >>,
      RawHeader }

\* a file that pandas cannot parse
Unreadable == [columns |-> <<>>, rows |-> <<>>, readable |-> FALSE]

RECURSIVE SeqsUpTo(_, _)
SeqsUpTo(S, n) ==
    IF n = 0 THEN {<<>>}
    ELSE LET shorter == SeqsUpTo(S, n - 1)
         IN  shorter \cup {Append(s, x) : s \in shorter, x \in S}

RawFiles(maxRows) ==
    {[columns |-> RawHeader, rows |-> rs, readable |-> TRUE] : rs \in SeqsUpTo(RawRows, maxRows)}
        \cup {Unreadable}

\* the ./data directory: up to maxFiles files, in listing order
RawDirs(maxFiles, maxRows) == SeqsUpTo(RawFiles(maxRows), maxFiles)

(***************************************************************************)
(* pandas read_csv / to_csv.                                               *)
(***************************************************************************)
\* the strings read_csv reads as NaN (of its default na_values, those that occur)
NaValues == {<<>>, NA}

ReadCell(c) == IF c \in NaValues THEN NaN ELSE c

\* pd.read_csv: every cell through the NaN recognition
ReadCsv(file) ==
    [columns |-> file.columns,
     rows |-> [i \in 1..Len(file.rows) |->
                  [j \in 1..Len(file.rows[i]) |-> ReadCell(file.rows[i][j])]]]

(***************************************************************************)
(* Cleaner: staging/clean_data.py.                                         *)
(***************************************************************************)
CleanColumn(col) == Replace(Lower(Strip(col)), " ", "_")

\* the body of the loop for one readable file
CleanFile(file) ==
    LET df == ReadCsv(file)
        NotAllNaN(row) == \E j \in 1..Len(row) : row[j] # NaN
    IN  [columns |-> [j \in 1..Len(df.columns) |-> CleanColumn(df.columns[j])],
         rows |-> SelectSeq(df.rows, NotAllNaN),
         readable |-> TRUE]

\* number of files the loop gets through: read_csv raises on the first file
\* pandas cannot parse and nothing catches it
RECURSIVE CleanedCount(_)
CleanedCount(data) ==
    IF data = <<>> \/ ~Head(data).readable THEN 0 ELSE 1 + CleanedCount(Tail(data))

\* the ./cleaned directory after the Cleaner ran over ./data: file i is written
\* under the name of data file i; files not rewritten stay as they were
clean_data(data, out) ==
    LET n == CleanedCount(data)
        m == IF Len(out) > n THEN Len(out) ELSE n
    IN  [i \in 1..m |-> IF i <= n THEN CleanFile(data[i]) ELSE out[i]]

(***************************************************************************)
(* pandas conversions used by the loader.                                  *)
(***************************************************************************)
DigitVal ==
    [c \in {"0", "1", "2", "3", "4", "5", "6", "7", "8", "9"} |->
        CASE c = "0" -> 0 [] c = "1" -> 1 [] c = "2" -> 2 [] c = "3" -> 3 [] c = "4" -> 4
          [] c = "5" -> 5 [] c = "6" -> 6 [] c = "7" -> 7 [] c = "8" -> 8 [] c = "9" -> 9]

IsDigits(s) == \A i \in 1..Len(s) : s[i] \in DOMAIN DigitVal

RECURSIVE ParseNat(_)
ParseNat(s) ==
    IF s = <<>> THEN 0 ELSE 10 * ParseNat(SubSeq(s, 1, Len(s) - 1)) + DigitVal[s[Len(s)]]

\* pd.to_numeric(..., errors='coerce') of one cell: the number in thousandths,
\* boxed, or NaN.  Accepts [-]digits[.digits]; digits past the third decimal
\* are below the model's resolution and are cut.
ToNumeric(cell) ==
    LET neg == cell # <<>> /\ cell[1] = "-"
        body == IF neg THEN Tail(cell) ELSE cell
        dots == {i \in 1..Len(body) : body[i] = "."}
        dot == IF dots = {} THEN Len(body) + 1 ELSE CHOOSE i \in dots : \A k \in dots : i <= k
        int == SubSeq(body, 1, dot - 1)
        frac == SubSeq(body, dot + 1, Len(body))
        frac3 == SubSeq(frac \o <<"0", "0", "0">>, 1, 3)
        mag == 1000 * ParseNat(int) + ParseNat(frac3)
    IN  IF Cardinality(dots) <= 1 /\ IsDigits(int) /\ IsDigits(frac) /\ int \o frac # <<>>
        THEN Box(IF neg THEN 0 - mag ELSE mag)
        ELSE NaN

\* Series.fillna(value)
FillNa(b, value) == IF b = NaN THEN value ELSE Unbox(b)

\* astype('Int64') of a float: raises unless the value is integral
Int64Castable(thousandths) == thousandths % 1000 = 0

AsInt64(thousandths) == thousandths \div 1000

\* pd.to_datetime(..., errors='coerce').dt.date of one cell.  A date cell is
\* written as its day number; anything else is unparseable and becomes NaT.
ToDatetime(cell) == IF cell # NaN /\ IsDigits(cell) THEN Box(ParseNat(cell)) ELSE NaN

\* a float in thousandths stored in a NUMERIC(10, 2) column: hundredths,
\* rounded half away from zero
Numeric2(thousandths) ==
    IF thousandths >= 0 THEN (thousandths + 5) \div 10
    ELSE 0 - ((0 - thousandths + 5) \div 10)

(***************************************************************************)
(* Dimensional Loader, step 1: ingest and merge (load.py 47-85).           *)
(***************************************************************************)
LoadColumn(col) == Replace(Replace(Lower(Strip(col)), " ", "_"), "-", "_")

\* position of the column called `name`, 0 when the frame has none
ColIdx(columns, name) ==
    IF \E j \in 1..Len(columns) : columns[j] = name
    THEN CHOOSE j \in 1..Len(columns) : columns[j] = name
    ELSE 0

\* the repeated-header test of one row against the file's own column names
IsRepeatedHeader(row, columns) ==
    LET header_lower == [i \in 1..Len(columns) |-> Lower(columns[i])]
    IN  \A i \in 1..Len(row) : Lower(Strip(Str(row[i]))) = header_lower[i]

\* the body of the per-file loop: the frame appended to all_dfs
LoadFile(file) ==
    LET df == ReadCsv(file)
        NotHeader(row) == ~IsRepeatedHeader(row, df.columns)
        kept == SelectSeq(df.rows, NotHeader)
        cols == [j \in 1..Len(df.columns) |-> LoadColumn(df.columns[j])]
        dated == [i \in 1..Len(kept) |->
                    [j \in 1..Len(cols) |->
                        IF Contains(cols[j], <<"d", "a", "t", "e">>)
                        THEN ToDatetime(kept[i][j]) ELSE kept[i][j]]]
    IN  [columns |-> cols, rows |-> dated]

RECURSIVE Concat(_)
\* pd.concat(all_dfs, ignore_index=True) for frames with the same columns
Concat(dfs) == IF dfs = <<>> THEN <<>> ELSE Head(dfs).rows \o Concat(Tail(dfs))

\* a cell of a row by column name
Cell(row, columns, name) == row[ColIdx(columns, name)]

\* the columns main() subscripts combined_df with; a missing one is a KeyError
LoaderColumns ==
    {order_id, product, quantity_ordered, price_each, order_date, purchase_address}

(***************************************************************************)
(* Step 2: type coercion (load.py 91-94).  Ingest gives the run's outcome  *)
(* up to the start of the dimensional load:                                *)
(*   "exit"   main() returned: no csv file, or no frame was read;          *)
(*   "raise"  an exception left main(): a KeyError, or astype('Int64') on  *)
(*            a quantity that is not integral;                              *)
(*   "ok"     rows is combined_df, one record per row.                     *)
(***************************************************************************)
\* load.py 47-85: the frames of the files that could be read, concatenated
Combined(dir) ==
    LET all_dfs == [k \in 1..Len(SelectSeq(dir, LAMBDA f : f.readable)) |->
                       LoadFile(SelectSeq(dir, LAMBDA f : f.readable)[k])]
    IN  IF all_dfs = <<>> THEN [empty |-> TRUE, columns |-> <<>>, rows |-> <<>>]
        ELSE [empty |-> FALSE, columns |-> Head(all_dfs).columns, rows |-> Concat(all_dfs)]

Quantity(row, columns) == FillNa(ToNumeric(Cell(row, columns, quantity_ordered)), 0)

Price(row, columns) == FillNa(ToNumeric(Cell(row, columns, price_each)), 0)

Ingest(dir) ==
    LET c == Combined(dir)
    IN  IF c.empty THEN [status |-> "exit", rows |-> <<>>]
        ELSE IF \E name \in LoaderColumns : ColIdx(c.columns, name) = 0
        THEN [status |-> "raise", rows |-> <<>>]
        ELSE IF \E i \in 1..Len(c.rows) : ~Int64Castable(Quantity(c.rows[i], c.columns))
        THEN [status |-> "raise", rows |-> <<>>]
        ELSE [status |-> "ok",
              rows |-> [i \in 1..Len(c.rows) |->
                  [order_id |-> Cell(c.rows[i], c.columns, order_id),
                   product |-> Cell(c.rows[i], c.columns, product),
                   quantity_ordered |-> AsInt64(Quantity(c.rows[i], c.columns)),
                   price_each |-> Price(c.rows[i], c.columns),
                   order_date |-> Cell(c.rows[i], c.columns, order_date),
                   purchase_address |-> Cell(c.rows[i], c.columns, purchase_address)]]]

RECURSIVE DropDuplicates(_)
\* DataFrame.drop_duplicates(): the first occurrence of every row, in order.
\* SELECT DISTINCT is modelled the same way: PostgreSQL leaves the order of
\* its result open, and the order only decides which new row gets which key.
DropDuplicates(rows) ==
    IF rows = <<>> THEN <<>>
    ELSE LET init == DropDuplicates(SubSeq(rows, 1, Len(rows) - 1))
             last == rows[Len(rows)]
         IN  IF \E i \in 1..Len(init) : init[i] = last THEN init ELSE Append(init, last)

(***************************************************************************)
(* The warehouse.                                                          *)
(***************************************************************************)
\* the tables createtables.py creates
WarehouseTables == {"dim_customer", "dim_product", "fact_sales"}

\* createtables.py: the three tables empty, their SERIAL sequences restarted
FreshSchema(old) ==
    [relations |-> WarehouseTables,
     dim_customer |-> {}, dim_product |-> {}, fact_sales |-> {},
     customer_seq |-> 0, product_seq |-> 0,
     temp_dim_customer |-> old.temp_dim_customer,
     temp_dim_product |-> old.temp_dim_product,
     temp_fact_sales |-> old.temp_fact_sales]

NoStaging ==
    [temp_dim_customer |-> <<>>, temp_dim_product |-> <<>>, temp_fact_sales |-> <<>>]

\* the tables that hold a REFERENCES constraint on table t: fact_sales
\* references both dimension tables
DependentsOf(d, t) ==
    IF t # "fact_sales" /\ t \in d.relations /\ "fact_sales" \in d.relations
    THEN {"fact_sales"} ELSE {}

\* table t gone or newly created: no rows, and the sequence its SERIAL
\* column owns gone or restarted with it
Emptied(d, t) ==
    CASE t = "dim_customer" -> [d EXCEPT !.dim_customer = {}, !.customer_seq = 0]
      [] t = "dim_product" -> [d EXCEPT !.dim_product = {}, !.product_seq = 0]
      [] OTHER -> [d EXCEPT !.fact_sales = {}]

\* a faulty drop: DROP TABLE t, without IF EXISTS and without CASCADE
DropTable(d, t) ==
    IF t \notin d.relations \/ DependentsOf(d, t) # {}
    THEN [db |-> d, ok |-> FALSE]
    ELSE [db |-> [Emptied(d, t) EXCEPT !.relations = d.relations \ {t}], ok |-> TRUE]

\* DROP TABLE IF EXISTS t CASCADE: an absent table is a notice, a constraint
\* that references t goes with it
DropTableIfExistsCascade(d, t) ==
    IF t \notin d.relations THEN [db |-> d, ok |-> TRUE]
    ELSE [db |-> [Emptied(d, t) EXCEPT !.relations = d.relations \ {t}], ok |-> TRUE]

\* CREATE TABLE t: fails when t exists, or when a table it REFERENCES does not
CreateTable(d, t) ==
    IF \/ t \in d.relations
       \/ t = "fact_sales" /\ ~({"dim_customer", "dim_product"} \subseteq d.relations)
    THEN [db |-> d, ok |-> FALSE]
    ELSE [db |-> [Emptied(d, t) EXCEPT !.relations = d.relations \cup {t}], ok |-> TRUE]

\* the statements of create_table_sql, in order
create_table_sql ==
    << [op |-> "drop", table |-> "fact_sales"],
       [op |-> "drop", table |-> "dim_product"],
       [op |-> "drop", table |-> "dim_customer"],
       [op |-> "create", table |-> "dim_customer"],
       [op |-> "create", table |-> "dim_product"],
       [op |-> "create", table |-> "fact_sales"] >>

RECURSIVE Execute(_, _)
\* conn.execute(text(...)): the statements one after the other, up to the
\* first that fails
Execute(d, stmts) ==
    IF stmts = <<>> THEN [db |-> d, ok |-> TRUE]
    ELSE LET r == IF Head(stmts).op = "drop"
                  THEN DropTableIfExistsCascade(d, Head(stmts).table)
                  ELSE CreateTable(d, Head(stmts).table)
         IN  IF r.ok THEN Execute(r.db, Tail(stmts)) ELSE [db |-> d, ok |-> FALSE]

\* create_warehouse_tables: execute and commit; on an error nothing is
\* committed and the exception is raised again
create_warehouse_tables(d) ==
    LET r == Execute(d, create_table_sql)
    IN  IF r.ok THEN [db |-> r.db, raised |-> FALSE] ELSE [db |-> d, raised |-> TRUE]

\* the three warehouse tables of a database state
Tables(d) ==
    [dim_customer |-> d.dim_customer, dim_product |-> d.dim_product,
     fact_sales |-> d.fact_sales]

(***************************************************************************)
(* Steps 3-4: customer extraction and upsert (load.py 105-126).            *)
(***************************************************************************)
dim_customer_temp_df(df) ==
    LET addresses == [i \in 1..Len(df) |-> df[i].purchase_address]
    IN  SelectSeq(DropDuplicates(addresses), LAMBDA a : a # NaN)

CustomerToSql(d, temp) == [d EXCEPT !.temp_dim_customer = temp]

RECURSIVE InsertCustomersRekey(_, _, _)
\* a faulty upsert: a conflicting address takes the newly drawn key
InsertCustomersRekey(rows, table, seq) ==
    IF rows = <<>> THEN [table |-> table, seq |-> seq]
    ELSE LET a == Head(rows)
             new == [customer_pk |-> seq + 1, purchase_address |-> a,
                     city |-> NaN, state |-> NaN, zip_code |-> NaN]
             others == {c \in table : c.purchase_address # a}
         IN  InsertCustomersRekey(Tail(rows), others \cup {new}, seq + 1)

RECURSIVE InsertCustomers(_, _, _)
\* INSERT ... ON CONFLICT (purchase_address) DO NOTHING, row by row.  The
\* SERIAL default is evaluated for every proposed row, kept or not.
InsertCustomers(rows, table, seq) ==
    IF rows = <<>> THEN [table |-> table, seq |-> seq]
    ELSE LET a == Head(rows)
             new == [customer_pk |-> seq + 1, purchase_address |-> a,
                     city |-> NaN, state |-> NaN, zip_code |-> NaN]
         IN  IF \E c \in table : c.purchase_address = a
             THEN InsertCustomers(Tail(rows), table, seq + 1)
             ELSE InsertCustomers(Tail(rows), table \cup {new}, seq + 1)

\* the table is missing, or a NULL meets purchase_address NOT NULL
CustomerMergeFails(d) ==
    \/ "dim_customer" \notin d.relations
    \/ \E i \in 1..Len(d.temp_dim_customer) : d.temp_dim_customer[i] = NaN

CustomerMerge(d) ==
    LET r == InsertCustomers(DropDuplicates(d.temp_dim_customer), d.dim_customer,
                             d.customer_seq)
    IN  [d EXCEPT !.dim_customer = r.table, !.customer_seq = r.seq]

(***************************************************************************)
(* Steps 5-6: product extraction and upsert (load.py 137-164).             *)
(***************************************************************************)
dim_product_temp_df(df) ==
    LET pairs == [i \in 1..Len(df) |->
                    [product_name |-> df[i].product, price_each |-> df[i].price_each,
                     category |-> NaN]]
    IN  SelectSeq(DropDuplicates(pairs), LAMBDA r : r.product_name # NaN)

\* to_sql with price_each NUMERIC(10, 2)
ProductToSql(d, temp) ==
    [d EXCEPT !.temp_dim_product =
        [i \in 1..Len(temp) |-> [temp[i] EXCEPT !.price_each = Numeric2(temp[i].price_each)]]]

RECURSIVE UpsertProductsRekey(_, _, _, _)
\* a faulty upsert: a conflicting name is deleted and inserted again under
\* the newly drawn key
UpsertProductsRekey(rows, table, seq, done) ==
    IF rows = <<>> THEN [table |-> table, seq |-> seq, ok |-> TRUE]
    ELSE LET r == Head(rows)
             new == [product_pk |-> seq + 1, product_name |-> r.product_name,
                     price_each |-> r.price_each, category |-> r.category]
             others == {p \in table : p.product_name # r.product_name}
         IN  IF r.product_name = NaN \/ r.product_name \in done
             THEN [table |-> table, seq |-> seq + 1, ok |-> FALSE]
             ELSE UpsertProductsRekey(Tail(rows), others \cup {new}, seq + 1,
                                      done \cup {r.product_name})

RECURSIVE UpsertProducts(_, _, _, _)
\* INSERT ... ON CONFLICT (product_name) DO UPDATE, row by row; `done` are
\* the names this command has already inserted or updated.  A second proposed
\* row for one of them is PostgreSQL's cardinality_violation ("ON CONFLICT DO
\* UPDATE command cannot affect row a second time"): the command fails.
UpsertProducts(rows, table, seq, done) ==
    IF rows = <<>> THEN [table |-> table, seq |-> seq, ok |-> TRUE]
    ELSE LET r == Head(rows)
             new == [product_pk |-> seq + 1, product_name |-> r.product_name,
                     price_each |-> r.price_each, category |-> r.category]
             updated == {IF p.product_name = r.product_name
                         THEN [p EXCEPT !.price_each = r.price_each, !.category = r.category]
                         ELSE p : p \in table}
         IN  IF r.product_name = NaN \/ r.product_name \in done
             THEN [table |-> table, seq |-> seq + 1, ok |-> FALSE]
             ELSE IF \E p \in table : p.product_name = r.product_name
             THEN UpsertProducts(Tail(rows), updated, seq + 1, done \cup {r.product_name})
             ELSE UpsertProducts(Tail(rows), table \cup {new}, seq + 1,
                                 done \cup {r.product_name})

ProductUpsert(d) ==
    UpsertProducts(DropDuplicates(d.temp_dim_product), d.dim_product, d.product_seq, {})

ProductMergeFails(d) == "dim_product" \notin d.relations \/ ~ProductUpsert(d).ok

\* a faulty merge that keeps what a failed command had written
ProductMergeNoRollback(d) ==
    [d EXCEPT !.dim_product = ProductUpsert(d).table, !.product_seq = ProductUpsert(d).seq]

\* engine.begin(): the command's rows commit together; a failed command is
\* rolled back, but the sequence values it drew stay drawn
ProductMerge(d) ==
    LET r == ProductUpsert(d)
    IN  IF "dim_product" \notin d.relations THEN d
        ELSE IF r.ok THEN [d EXCEPT !.dim_product = r.table, !.product_seq = r.seq]
        ELSE [d EXCEPT !.product_seq = r.seq]

(***************************************************************************)
(* Steps 7-9: key resolution, fact derivation and upsert (load.py 178-240).*)
(***************************************************************************)
\* pd.read_sql_table raises, outside any try block, when its table is missing
ReadDimensionsFails(d) == ~({"dim_customer", "dim_product"} \subseteq d.relations)

\* pd.read_sql_table('dim_customer', columns=['customer_pk', 'purchase_address'])
ReadCustomers(d) ==
    {[customer_pk |-> c.customer_pk, purchase_address |-> c.purchase_address] :
        c \in d.dim_customer}

\* pd.read_sql_table('dim_product', columns=['product_pk', 'product_name'])
ReadProducts(d) ==
    {[product_pk |-> p.product_pk, product_name |-> p.product_name] : p \in d.dim_product}

\* a faulty merge: a row without a match takes the key of some customer
CustomerKeyOrAny(row, customers) ==
    LET m == {c \in customers : c.purchase_address = row.purchase_address}
    IN  IF customers = {} THEN NaN
        ELSE IF m = {} THEN Box((CHOOSE c \in customers : TRUE).customer_pk)
        ELSE Box((CHOOSE c \in m : TRUE).customer_pk)

\* the key column a left merge adds to one row: the matching key, or NaN
CustomerKey(row, customers) ==
    LET m == {c \in customers : c.purchase_address = row.purchase_address}
    IN  IF m = {} THEN NaN ELSE Box((CHOOSE c \in m : TRUE).customer_pk)

ProductKey(row, products) ==
    LET m == {p \in products : p.product_name = row.product}
    IN  IF m = {} THEN NaN ELSE Box((CHOOSE p \in m : TRUE).product_pk)

\* a faulty dropna that leaves the resolved keys out of its subset
HasOrderIdAndDate(f) == f.order_id # NaN /\ f.order_date # NaN

\* load.py 194: the rows that pass dropna
HasEssentialKeys(f) ==
    f.order_id # NaN /\ f.customer_pk # NaN /\ f.product_pk # NaN /\ f.order_date # NaN

\* load.py 181-202: merge, total_amount, projection, rename, dropna
fact_sales_final_df(df, customers, products) ==
    LET fact_sales_df ==
            [i \in 1..Len(df) |->
                [order_id |-> df[i].order_id,
                 customer_pk |-> CustomerKey(df[i], customers),
                 product_pk |-> ProductKey(df[i], products),
                 order_date |-> df[i].order_date,
                 quantity |-> df[i].quantity_ordered,
                 total_amount |-> df[i].quantity_ordered * df[i].price_each]]
    IN  SelectSeq(fact_sales_df, HasEssentialKeys)

\* to_sql with total_amount NUMERIC(10, 2)
FactToSql(d, final) ==
    [d EXCEPT !.temp_fact_sales =
        [i \in 1..Len(final) |->
            [final[i] EXCEPT !.total_amount = Numeric2(final[i].total_amount)]]]

RECURSIVE InsertFactsOverwrite(_, _)
\* a faulty upsert: ON CONFLICT (order_id) DO UPDATE, the later row wins
InsertFactsOverwrite(rows, table) ==
    IF rows = <<>> THEN table
    ELSE InsertFactsOverwrite(Tail(rows),
            {f \in table : f.order_id # Head(rows).order_id} \cup {Head(rows)})

RECURSIVE InsertFacts(_, _)
\* INSERT ... SELECT ... FROM temp_fact_sales ON CONFLICT (order_id) DO
\* NOTHING, row by row in the staging table's order
InsertFacts(rows, table) ==
    IF rows = <<>> THEN table
    ELSE IF \E f \in table : f.order_id = Head(rows).order_id
         THEN InsertFacts(Tail(rows), table)
         ELSE InsertFacts(Tail(rows), table \cup {Head(rows)})

\* fact_sales constraints: order_id, order_date NOT NULL; a key that is not
\* NULL REFERENCES its dimension table
FactMergeFails(d) ==
    \/ "fact_sales" \notin d.relations
    \/ \E i \in 1..Len(d.temp_fact_sales) :
          LET f == d.temp_fact_sales[i]
          IN  \/ f.order_id = NaN
              \/ f.order_date = NaN
              \/ f.customer_pk # NaN /\
                   ~\E c \in d.dim_customer : c.customer_pk = Unbox(f.customer_pk)
              \/ f.product_pk # NaN /\
                   ~\E p \in d.dim_product : p.product_pk = Unbox(f.product_pk)

FactMerge(d) == [d EXCEPT !.fact_sales = InsertFacts(d.temp_fact_sales, d.fact_sales)]

(***************************************************************************)
(* main() of load.py from the dimensional load on, run without any other   *)
(* client of the database in between: the database it leaves.              *)
(***************************************************************************)
CustomerPhase(d, df) ==
    LET temp == dim_customer_temp_df(df)
        staged == CustomerToSql(d, temp)
    IN  IF temp = <<>> THEN [db |-> d, ok |-> TRUE]
        ELSE IF CustomerMergeFails(staged) THEN [db |-> staged, ok |-> FALSE]
        ELSE [db |-> CustomerMerge(staged), ok |-> TRUE]

ProductPhase(d, df) ==
    LET temp == dim_product_temp_df(df)
        staged == ProductToSql(d, temp)
    IN  IF temp = <<>> THEN [db |-> d, ok |-> TRUE]
        ELSE [db |-> ProductMerge(staged), ok |-> ~ProductMergeFails(staged)]

FactPhase(d, df) ==
    LET final == fact_sales_final_df(df, ReadCustomers(d), ReadProducts(d))
        staged == FactToSql(d, final)
    IN  IF ReadDimensionsFails(d) THEN [db |-> d, ok |-> FALSE]
        ELSE IF final = <<>> THEN [db |-> d, ok |-> TRUE]
        ELSE IF FactMergeFails(staged) THEN [db |-> staged, ok |-> FALSE]
        ELSE [db |-> FactMerge(staged), ok |-> TRUE]

\* the three phases in order; the except branch of a phase returns
DimensionalLoad(d, df) ==
    LET c == CustomerPhase(d, df)
        p == ProductPhase(c.db, df)
        f == FactPhase(p.db, df)
    IN  IF ~c.ok THEN c.db ELSE IF ~p.ok THEN p.db ELSE f.db

\* one whole run of main() over the directory `dir`
LoaderRun(d, dir) ==
    LET in == Ingest(dir)
    IN  IF in.status = "ok" THEN DimensionalLoad(d, in.rows) ELSE d

(***************************************************************************)
(* The system: the three programs as batch jobs run one after another.     *)
(***************************************************************************)
Procs == {1, 2}

Init ==
    /\ input_dir = <<>>
    /\ cleaned = <<>>
    /\ db = FreshSchema(NoStaging)
    /\ pc = [p \in Procs |-> "idle"]
    /\ combined_df = [p \in Procs |-> <<>>]
    /\ db_customers = [p \in Procs |-> {}]
    /\ db_products = [p \in Procs |-> {}]
    /\ pending = FALSE
    /\ runs = 0

\* python staging/clean_data.py over some ./data directory.  The jobs run in
\* the pipeline's order: the Cleaner stages a batch, then loader runs read it.
Cleaner(data) ==
    /\ runs < MaxRuns
    /\ ~pending
    /\ input_dir' = data
    /\ cleaned' = clean_data(data, cleaned)
    /\ pending' = TRUE
    /\ UNCHANGED <<db, pc, combined_df, db_customers, db_products, runs>>

\* python datawarehouse/createtables.py
SchemaManager ==
    /\ db' = create_warehouse_tables(db).db
    /\ UNCHANGED <<input_dir, cleaned, pc, combined_df, db_customers, db_products, pending, runs>>

\* python datawarehouse/load.py, alone on the database
Loader ==
    /\ runs < MaxRuns
    /\ db' = LoaderRun(db, cleaned)
    /\ pending' = FALSE
    /\ runs' = runs + 1
    /\ UNCHANGED <<input_dir, cleaned, pc, combined_df, db_customers, db_products>>

Next ==
    \/ \E data \in RawDirs(MaxFiles, MaxRowsPerFile) : Cleaner(data)
    \/ SchemaManager
    \/ Loader

Spec == Init /\ [][Next]_vars

(***************************************************************************)
(* main() of load.py statement by statement, as process p: one action per  *)
(* database round trip.  `lost` is the connection failing in that round    *)
(* trip; inside a phase's try block the except branch prints and returns.  *)
(***************************************************************************)
Locals == <<combined_df, db_customers, db_products>>

Goto(p, label) == pc' = [pc EXCEPT ![p] = label]

\* load.py 47-100: read ./cleaned, concatenate, coerce
Start(p) ==
    /\ pc[p] = "idle"
    /\ runs < MaxRuns
    /\ runs' = runs + 1
    /\ pending' = FALSE
    /\ LET in == Ingest(cleaned)
       IN  /\ combined_df' = [combined_df EXCEPT ![p] = in.rows]
           /\ Goto(p, CASE in.status = "ok" -> "customer_to_sql"
                        [] in.status = "exit" -> "done"
                        [] OTHER -> "raised")
    /\ UNCHANGED <<input_dir, cleaned, db, db_customers, db_products>>

\* load.py 105-116
CustomerStage(p, lost) ==
    /\ pc[p] = "customer_to_sql"
    /\ LET temp == dim_customer_temp_df(combined_df[p])
       IN  IF temp = <<>> THEN Goto(p, "product_to_sql") /\ db' = db
           ELSE IF lost THEN Goto(p, "aborted") /\ db' = db
           ELSE Goto(p, "customer_merge") /\ db' = CustomerToSql(db, temp)
    /\ UNCHANGED <<input_dir, cleaned, Locals, pending, runs>>

\* load.py 119-132
CustomerUpsert(p, lost) ==
    /\ pc[p] = "customer_merge"
    /\ IF lost \/ CustomerMergeFails(db) THEN Goto(p, "aborted") /\ db' = db
       ELSE Goto(p, "product_to_sql") /\ db' = CustomerMerge(db)
    /\ UNCHANGED <<input_dir, cleaned, Locals, pending, runs>>

\* load.py 137-154
ProductStage(p, lost) ==
    /\ pc[p] = "product_to_sql"
    /\ LET temp == dim_product_temp_df(combined_df[p])
       IN  IF temp = <<>> THEN Goto(p, "read_customers") /\ db' = db
           ELSE IF lost THEN Goto(p, "aborted") /\ db' = db
           ELSE Goto(p, "product_merge") /\ db' = ProductToSql(db, temp)
    /\ UNCHANGED <<input_dir, cleaned, Locals, pending, runs>>

\* load.py 157-170
ProductUpsertStep(p, lost) ==
    /\ pc[p] = "product_merge"
    /\ IF lost THEN Goto(p, "aborted") /\ db' = db
       ELSE /\ Goto(p, IF ProductMergeFails(db) THEN "aborted" ELSE "read_customers")
            /\ db' = ProductMerge(db)
    /\ UNCHANGED <<input_dir, cleaned, Locals, pending, runs>>

\* load.py 178
ReadCustomersStep(p) ==
    /\ pc[p] = "read_customers"
    /\ IF "dim_customer" \in db.relations
       THEN /\ db_customers' = [db_customers EXCEPT ![p] = ReadCustomers(db)]
            /\ Goto(p, "read_products")
       ELSE db_customers' = db_customers /\ Goto(p, "raised")
    /\ UNCHANGED <<input_dir, cleaned, db, combined_df, db_products, pending, runs>>

\* load.py 179
ReadProductsStep(p) ==
    /\ pc[p] = "read_products"
    /\ IF "dim_product" \in db.relations
       THEN /\ db_products' = [db_products EXCEPT ![p] = ReadProducts(db)]
            /\ Goto(p, "fact_to_sql")
       ELSE db_products' = db_products /\ Goto(p, "raised")
    /\ UNCHANGED <<input_dir, cleaned, db, combined_df, db_customers, pending, runs>>

\* load.py 181-225
FactStage(p, lost) ==
    /\ pc[p] = "fact_to_sql"
    /\ LET final == fact_sales_final_df(combined_df[p], db_customers[p], db_products[p])
       IN  IF final = <<>> THEN Goto(p, "done") /\ db' = db
           ELSE IF lost THEN Goto(p, "aborted") /\ db' = db
           ELSE Goto(p, "fact_merge") /\ db' = FactToSql(db, final)
    /\ UNCHANGED <<input_dir, cleaned, Locals, pending, runs>>

\* load.py 227-256
FactUpsert(p, lost) ==
    /\ pc[p] = "fact_merge"
    /\ IF lost \/ FactMergeFails(db) THEN Goto(p, "aborted") /\ db' = db
       ELSE Goto(p, "done") /\ db' = FactMerge(db)
    /\ UNCHANGED <<input_dir, cleaned, Locals, pending, runs>>

\* the process ends; the next run of the script starts afresh
Exit(p) ==
    /\ pc[p] \in {"done", "aborted", "raised"}
    /\ Goto(p, "idle")
    /\ combined_df' = [combined_df EXCEPT ![p] = <<>>]
    /\ db_customers' = [db_customers EXCEPT ![p] = {}]
    /\ db_products' = [db_products EXCEPT ![p] = {}]
    /\ UNCHANGED <<input_dir, cleaned, db, pending, runs>>

\* a step of process p; Losses says whether the connection can fail
LoaderStep(p, Losses) ==
    \/ Start(p)
    \/ \E lost \in Losses : CustomerStage(p, lost)
    \/ \E lost \in Losses : CustomerUpsert(p, lost)
    \/ \E lost \in Losses : ProductStage(p, lost)
    \/ \E lost \in Losses : ProductUpsertStep(p, lost)
    \/ ReadCustomersStep(p)
    \/ ReadProductsStep(p)
    \/ \E lost \in Losses : FactStage(p, lost)
    \/ \E lost \in Losses : FactUpsert(p, lost)
    \/ Exit(p)

AllIdle == \A p \in Procs : pc[p] = "idle"

\* the batch jobs one at a time, the loader seen statement by statement
NextPhases ==
    \/ \E data \in RawDirs(MaxFiles, MaxRowsPerFile) : AllIdle /\ Cleaner(data)
    \/ AllIdle /\ SchemaManager
    \/ (\A q \in Procs \ {1} : pc[q] = "idle") /\ LoaderStep(1, BOOLEAN)

SpecPhases == Init /\ [][NextPhases]_vars

\* two loader processes on one database, with no coordination between them
NextConc ==
    \/ \E data \in RawDirs(MaxFilesConc, MaxRowsPerFile) : Cleaner(data)
    \/ \E p \in Procs : LoaderStep(p, {FALSE})

SpecConc == Init /\ [][NextConc]_vars

\* a database in which any of the three tables may be missing, as before the
\* first run of createtables.py or after tables were dropped by hand
InitSchema ==
    /\ input_dir = <<>>
    /\ cleaned = <<>>
    /\ \E R \in SUBSET WarehouseTables :
          db = [FreshSchema(NoStaging) EXCEPT !.relations = R]
    /\ pc = [p \in Procs |-> "idle"]
    /\ combined_df = [p \in Procs |-> <<>>]
    /\ db_customers = [p \in Procs |-> {}]
    /\ db_products = [p \in Procs |-> {}]
    /\ pending = FALSE
    /\ runs = 0

\* the three batch jobs, one at a time, on such a database
NextSchema ==
    \/ \E data \in RawDirs(MaxFilesConc, MaxRowsPerFile) : Cleaner(data)
    \/ SchemaManager
    \/ Loader

SpecSchema == InitSchema /\ [][NextSchema]_vars

(***************************************************************************)
(* Properties.                                                             *)
(***************************************************************************)
\* a step of Spec that is one whole loader run
LoaderRan == runs' = runs + 1

\* the rows the run over the staged directory works on
Batch == Ingest(cleaned).rows

\* C1: running the loader again on the batch it has just loaded leaves
\* dim_customer, dim_product and fact_sales exactly as the first run left
\* them: same rows, same surrogate keys, same attribute values.
C1_Idempotent ==
    [][LoaderRan => Tables(LoaderRun(db', cleaned')) = Tables(db')]_vars

\* a batch was loaded twice into a warehouse that holds facts, and keys were
\* drawn and discarded on the way
C1_Witness ==
    /\ runs = MaxRuns
    /\ ~pending
    /\ db.fact_sales # {}
    /\ db.customer_seq > Cardinality(db.dim_customer)
    /\ db.product_seq > Cardinality(db.dim_product)
    /\ Tables(LoaderRun(db, cleaned)) = Tables(db)

\* C2: every fact row carries a customer key and a product key that are not
\* NULL and are keys of rows of dim_customer and dim_product.
C2_NoDanglingForeignKey ==
    \A f \in db.fact_sales :
        /\ f.customer_pk # NaN
        /\ f.product_pk # NaN
        /\ \E c \in db.dim_customer : c.customer_pk = Unbox(f.customer_pk)
        /\ \E p \in db.dim_product : p.product_pk = Unbox(f.product_pk)

\* a run loaded a fact row out of a batch and dropped another row of the same
\* batch whose customer could not be resolved
C2_Witness ==
    /\ runs > 0
    /\ ~pending
    /\ \E i, j \in 1..Len(Batch) :
        /\ Batch[i].purchase_address = NaN
        /\ Batch[i].order_id # NaN
        /\ ~\E f \in db.fact_sales : f.order_id = Batch[i].order_id
        /\ \E f \in db.fact_sales : f.order_id = Batch[j].order_id

\* the price the batch carries for a product name: that of the last row of
\* the batch with that name, as NUMERIC(10, 2)
BatchPrice(name) ==
    LET last == CHOOSE i \in 1..Len(Batch) :
                    /\ Batch[i].product = name
                    /\ \A k \in 1..Len(Batch) : Batch[k].product = name => k <= i
    IN  Numeric2(Batch[last].price_each)

UniqueProductNames(d) ==
    \A p1, p2 \in d.dim_product : p1.product_name = p2.product_name => p1 = p2

\* C3: dim_product holds at most one row per product name and, after a run,
\* for every product name of the batch just loaded the stored price is the
\* price that batch carries for the name.
C3_ProductLastWriteWins ==
    [][LoaderRan /\ Ingest(cleaned).status = "ok" =>
         /\ UniqueProductNames(db')
         /\ \A i \in 1..Len(Batch) :
              Batch[i].product # NaN =>
                \E p \in db'.dim_product :
                    /\ p.product_name = Batch[i].product
                    /\ p.price_each = BatchPrice(Batch[i].product)]_vars

\* C4: dim_customer holds at most one row per purchase address, and a loader
\* run leaves every customer row it found unchanged, key and attributes,
\* whether or not the batch contains its address.
C4_CustomerInsertOrIgnore ==
    [][LoaderRan =>
         /\ \A c \in db.dim_customer : c \in db'.dim_customer
         /\ \A c1, c2 \in db'.dim_customer :
              c1.purchase_address = c2.purchase_address => c1 = c2]_vars

\* a run met an address that dim_customer already held: the key drawn for it
\* was discarded, and the batch of that run contains the address
C4_Witness ==
    /\ runs = MaxRuns
    /\ ~pending
    /\ db.customer_seq > Cardinality(db.dim_customer)
    /\ \E c \in db.dim_customer : \E i \in 1..Len(Batch) :
          /\ Batch[i].purchase_address = c.purchase_address
          /\ c.customer_pk < db.customer_seq - Len(dim_customer_temp_df(Batch)) + 1

\* C5: when the fact upsert of a run commits, fact_sales holds exactly one
\* row for every order identifier the run staged; a fact row that was there
\* before is unchanged, and a row the upsert adds is the first staged row
\* that carries its order identifier: later rows for it change nothing.
C5_FactFirstWriteWins ==
    [][pc[1] = "fact_merge" /\ pc'[1] = "done" =>
         LET temp == db.temp_fact_sales
         IN  /\ \A f \in db.fact_sales : f \in db'.fact_sales
             /\ \A f1, f2 \in db'.fact_sales : f1.order_id = f2.order_id => f1 = f2
             /\ \A i \in 1..Len(temp) :
                  \E f \in db'.fact_sales : f.order_id = temp[i].order_id
             /\ \A f \in db'.fact_sales \ db.fact_sales :
                  \E i \in 1..Len(temp) :
                      /\ temp[i] = f
                      /\ \A k \in 1..(i - 1) : temp[k].order_id # f.order_id]_vars

\* a fact upsert has committed whose staged rows hold an order identifier
\* of a stored fact row with another amount than the stored one
C5_Witness ==
    /\ pc[1] = "done"
    /\ \E f \in db.fact_sales : \E i \in 1..Len(db.temp_fact_sales) :
          /\ db.temp_fact_sales[i].order_id = f.order_id
          /\ db.temp_fact_sales[i].total_amount # f.total_amount

\* C6: no row of dim_customer, dim_product or fact_sales comes from a copy of
\* the header line among the data rows of a raw file: no customer has the
\* header's address cell, no product the header's product cell, no fact the
\* header's order identifier cell.
C6_LeakedHeaderExcluded ==
    /\ \A c \in db.dim_customer : c.purchase_address # RawHeader[6]
    /\ \A p \in db.dim_product : p.product_name # RawHeader[2]
    /\ \A f \in db.fact_sales : f.order_id # RawHeader[1]

\* C7: a run that gets as far as the dimensional load inserts, for every row
\* of the batch whose quantity is not numeric and whose order identifier,
\* date, address and product are present and whose order identifier is not
\* in fact_sales yet, a fact row for that order identifier with quantity 0.
C7_NonNumericQuantityLoadedAsZero ==
    [][LoaderRan /\ Ingest(cleaned).status = "ok" =>
         LET c == Combined(cleaned)
         IN  \A i \in 1..Len(c.rows) :
               (/\ ToNumeric(Cell(c.rows[i], c.columns, quantity_ordered)) = NaN
                /\ Batch[i].order_id # NaN
                /\ Batch[i].order_date # NaN
                /\ Batch[i].purchase_address # NaN
                /\ Batch[i].product # NaN
                /\ ~\E f \in db.fact_sales : f.order_id = Batch[i].order_id)
               => \E f \in db'.fact_sales :
                     f.order_id = Batch[i].order_id /\ f.quantity = 0]_vars

\* C8 as stated: a run adds no customer without an address and no fact row
\* for the order identifier of a row whose purchase address is missing.
C8_NoFactForOrderOfAddresslessRow ==
    [][LoaderRan =>
         /\ \A c \in db'.dim_customer : c.purchase_address # NaN
         /\ \A i \in 1..Len(Batch) :
              Batch[i].purchase_address = NaN =>
                ~\E f \in db'.fact_sales \ db.fact_sales :
                    f.order_id = Batch[i].order_id]_vars

\* C8, amended: a run adds no customer without an address, and every fact
\* row it adds comes from a row of the batch that has a purchase address and
\* carries the key of the customer with that address; a row without an
\* address contributes no fact row.
C8_NoFactFromAddresslessRow ==
    [][LoaderRan =>
         /\ \A c \in db'.dim_customer : c.purchase_address # NaN
         /\ \A f \in db'.fact_sales \ db.fact_sales :
              \E i \in 1..Len(Batch) :
                  /\ Batch[i].order_id = f.order_id
                  /\ Batch[i].purchase_address # NaN
                  /\ \E c \in db'.dim_customer :
                        /\ c.purchase_address = Batch[i].purchase_address
                        /\ Box(c.customer_pk) = f.customer_pk]_vars

\* a run over a batch with an addressless row left that row's order
\* identifier without a fact row while it loaded customers and facts
C8_Witness ==
    /\ runs > 0
    /\ ~pending
    /\ db.dim_customer # {}
    /\ db.fact_sales # {}
    /\ \E i \in 1..Len(Batch) :
          /\ Batch[i].purchase_address = NaN
          /\ Batch[i].order_id # NaN
          /\ ~\E f \in db.fact_sales : f.order_id = Batch[i].order_id

\* the tables with every surrogate key replaced by the natural key it stands for
Norm(d) ==
    LET address(k) ==
            IF \E c \in d.dim_customer : Box(c.customer_pk) = k
            THEN (CHOOSE c \in d.dim_customer : Box(c.customer_pk) = k).purchase_address
            ELSE NaN
        name(k) ==
            IF \E p \in d.dim_product : Box(p.product_pk) = k
            THEN (CHOOSE p \in d.dim_product : Box(p.product_pk) = k).product_name
            ELSE NaN
    IN  [dim_customer |-> {c.purchase_address : c \in d.dim_customer},
         dim_product |-> {[product_name |-> p.product_name, price_each |-> p.price_each,
                           category |-> p.category] : p \in d.dim_product},
         fact_sales |-> {[order_id |-> f.order_id, customer |-> address(f.customer_pk),
                          product |-> name(f.product_pk), order_date |-> f.order_date,
                          quantity |-> f.quantity, total_amount |-> f.total_amount] :
                            f \in d.fact_sales}]

Finished(p) == pc[p] \in {"done", "aborted", "raised"}

\* the warehouse after the run of process p and then that of process q, one
\* after the other, on the freshly created schema
Serial(p, q) ==
    DimensionalLoad(DimensionalLoad(FreshSchema(NoStaging), combined_df[p]), combined_df[q])

\* C9: when two loader runs on one freshly created warehouse have both ended,
\* however their statements interleaved, the tables are, up to the values of
\* the surrogate keys, those of running the two one after the other in one
\* of the two orders.
C9_InterleavedRunsSerializable ==
    (Finished(1) /\ Finished(2)) => Norm(db) \in {Norm(Serial(1, 2)), Norm(Serial(2, 1))}

PhaseRank(label) ==
    CASE label = "idle" -> 0
      [] label = "customer_to_sql" -> 1
      [] label = "customer_merge" -> 2
      [] label = "product_to_sql" -> 3
      [] label = "product_merge" -> 4
      [] label = "read_customers" -> 5
      [] label = "read_products" -> 6
      [] label = "fact_to_sql" -> 7
      [] label = "fact_merge" -> 8
      [] OTHER -> 9

\* C10: the loader goes through its phases in the order customer, product,
\* fact, and each table is written by its own phase only; a step that fails
\* leaves dim_customer, dim_product and fact_sales as they were, so the rows
\* earlier phases committed remain; after a failure the run does nothing
\* more than end.
C10_PhaseAtomicityAndAbort ==
    [][pc'[1] # pc[1] =>
         /\ pc'[1] = "aborted" => Tables(db') = Tables(db)
         /\ Finished(1) => pc'[1] = "idle" /\ db' = db
         /\ pc'[1] # "idle" => PhaseRank(pc'[1]) > PhaseRank(pc[1])
         /\ db'.dim_customer # db.dim_customer => pc[1] = "customer_merge"
         /\ db'.dim_product # db.dim_product => pc[1] = "product_merge"
         /\ db'.fact_sales # db.fact_sales => pc[1] = "fact_merge"]_vars

\* a run whose product upsert failed on two prices for one name after its
\* customer upsert had committed: the customers are there, no product is
C10_Witness ==
    /\ pc[1] = "aborted"
    /\ ProductMergeFails(db)
    /\ db.dim_product = {}
    /\ db.temp_dim_customer # <<>>
    /\ \A i \in 1..Len(db.temp_dim_customer) :
          \E c \in db.dim_customer : c.purchase_address = db.temp_dim_customer[i]

\* a database with every warehouse table there: the state createtables.py
\* leaves, whatever it found
Fresh(d) ==
    /\ d.relations = WarehouseTables
    /\ d.dim_customer = {} /\ d.dim_product = {} /\ d.fact_sales = {}
    /\ d.customer_seq = 0 /\ d.product_seq = 0

\* position of the first statement of the script with that operation and table
StatementAt(op, table) ==
    CHOOSE i \in 1..Len(create_table_sql) :
        create_table_sql[i] = [op |-> op, table |-> table]

\* C11: from every database state, tables missing, empty or holding rows
\* that reference each other, create_warehouse_tables does not raise and
\* leaves the three tables present and empty; its script drops fact_sales
\* before dim_product and dim_customer; run again on what it left it does
\* not raise and leaves the same state.
C11_SchemaManagerIdempotent ==
    LET once == create_warehouse_tables(db)
        twice == create_warehouse_tables(once.db)
    IN  /\ ~once.raised
        /\ Fresh(once.db)
        /\ once.db = FreshSchema(db)
        /\ ~twice.raised
        /\ twice.db = once.db
        /\ StatementAt("drop", "fact_sales") < StatementAt("drop", "dim_product")
        /\ StatementAt("drop", "fact_sales") < StatementAt("drop", "dim_customer")

\* the schema manager ran after a loader run that had staged customers and
\* fact rows: the staging tables still hold them, the three tables are empty
\* and their sequences restarted
C11_Witness ==
    /\ Fresh(db)
    /\ runs >= 1
    /\ db.temp_dim_customer # <<>>
    /\ db.temp_fact_sales # <<>>

\* a run of the Cleaner
CleanerRan == ~pending /\ pending'

\* C12: a Cleaner run writes no output file for a raw file it cannot read
\* (what ./cleaned holds under that name, if anything, is left alone) and
\* writes the cleaned form of every raw file it can read, wherever the file
\* stands in the listing.
C12_CleanerSkipsBadFileAndContinues ==
    [][CleanerRan =>
         \A i \in 1..Len(input_dir') :
             IF input_dir'[i].readable
             THEN i <= Len(cleaned') /\ cleaned'[i] = CleanFile(input_dir'[i])
             ELSE i <= Len(cleaned') => i <= Len(cleaned) /\ cleaned'[i] = cleaned[i]]_vars

\* the product names the batch holds at two or more different prices
RepricedNames ==
    {Batch[i].product : i \in {k \in 1..Len(Batch) :
        /\ Batch[k].product # NaN
        /\ \E j \in 1..Len(Batch) :
              /\ Batch[j].product = Batch[k].product
              /\ Batch[j].price_each # Batch[k].price_each}}

\* the rows the product upsert of the last run selected from the staging table
Candidates(d) == DropDuplicates(d.temp_dim_product)

\* C13: after a run over a batch that holds a product name at two or more
\* different prices, the product upsert was handed exactly one candidate row
\* for that name, with the price the batch holds last for it, and dim_product
\* stores the name at that price.
C13_LatestPriceWithinBatch ==
    [][LoaderRan /\ Ingest(cleaned).status = "ok" =>
         \A name \in RepricedNames :
             /\ Cardinality({k \in 1..Len(Candidates(db')) :
                               Candidates(db')[k].product_name = name}) = 1
             /\ \A k \in 1..Len(Candidates(db')) :
                   Candidates(db')[k].product_name = name =>
                       Candidates(db')[k].price_each = BatchPrice(name)
             /\ \E p \in db'.dim_product :
                   p.product_name = name /\ p.price_each = BatchPrice(name)]_vars

\* C14: a step of a loader run keeps every dim_customer row and every
\* dim_product row under the same surrogate key and natural key, and keeps
\* every fact_sales row with all its columns: the loader adds rows, it
\* deletes no dimension row and updates or deletes no fact row.
C14_MonotonicLifecycle ==
    [][pc' # pc =>
         /\ \A c \in db.dim_customer : \E c2 \in db'.dim_customer :
               /\ c2.customer_pk = c.customer_pk
               /\ c2.purchase_address = c.purchase_address
         /\ \A p \in db.dim_product : \E p2 \in db'.dim_product :
               /\ p2.product_pk = p.product_pk
               /\ p2.product_name = p.product_name
         /\ db.fact_sales \subseteq db'.fact_sales]_vars

\* right after the product upsert of a run: a product row that is older than
\* this upsert (its key was drawn before) and that the upsert had a candidate
\* for, in a warehouse that holds customers and fact rows
C14_Witness ==
    /\ pc[1] = "read_customers"
    /\ dim_product_temp_df(combined_df[1]) # <<>>
    /\ db.dim_customer # {}
    /\ db.fact_sales # {}
    /\ \E p \in db.dim_product :
          /\ p.product_pk <= db.product_seq - Len(Candidates(db))
          /\ \E k \in 1..Len(Candidates(db)) :
                Candidates(db)[k].product_name = p.product_name

\* C15: every fact_sales row holds an integer quantity that is not negative.
C15_NonNegativeQuantity ==
    \A f \in db.fact_sales : f.quantity \in Nat

====
